---- MODULE Spec2Model ----
(***************************************************************************)
(* A model of the grammar-driven parser of                                 *)
(* src/svg-parser/syntax-string-parser.ts together with the                *)
(* SVGPolygonPointsGrammar table of src/unnamed/part_000.                  *)
(*                                                                         *)
(* The engine is a set of pure functions; they are modelled as operators   *)
(* that compute what the emitted JavaScript computes, including the values *)
(* undefined and NaN and the abnormal outcomes (a TypeError, a loop that   *)
(* never ends).  The state machine draws an input string and a grammar and *)
(* applies the functions to them.                                          *)
(***************************************************************************)
EXTENDS Integers, Sequences, FiniteSets, TLC

VARIABLES syntaxString, grammar, call, returned

vars == <<syntaxString, grammar, call, returned>>

(***************************************************************************)
(* JavaScript values.  Every value is a record with a kind field.          *)
(***************************************************************************)
False == [kind |-> "false"]
Undefined == [kind |-> "undefined"]
NaN == [kind |-> "NaN"]
Num(n) == [kind |-> "number", n |-> n]
\* A string value; chars is the sequence of its characters.
Text(chars) == [kind |-> "text", chars |-> chars]
\* An array value.
List(items) == [kind |-> "array", items |-> items]
\* The object literal { startIndex, endIndex, tokenType, value }.
AST(startIndex, endIndex, tokenType, value) ==
  [kind |-> "object", startIndex |-> startIndex, endIndex |-> endIndex,
   tokenType |-> tokenType, value |-> value]

\* Abnormal outcomes of a call: "Cannot read properties of undefined", and
\* a while (true) loop that never reaches its break.
TypeError == [kind |-> "TypeError"]
Diverges == [kind |-> "diverges"]

Abnormal(r) == r.kind \in {"TypeError", "diverges"}
\* if (result): objects and arrays are truthy, false is not.
Truthy(r) == r.kind \in {"object", "array"}

\* const { field } = r: a property the value does not have reads undefined.
Prop(r, field) ==
  IF r.kind = "object" /\ field \in DOMAIN r THEN r[field] ELSE Undefined

\* x + d on JavaScript numbers: undefined and NaN give NaN.
Plus(x, d) == IF x.kind = "number" THEN Num(x.n + d) ELSE NaN

(***************************************************************************)
(* Token validators (TokenValidator, line 12).                             *)
(***************************************************************************)
ZERO_OR_MORE == "*"
ONE_OR_MORE == "+"
ZERO_OR_ONE == "?"

\* A RegExp of one character class without anchor, as every pattern of
\* SVGPolygonPointsGrammarMap is: class is the set of characters it accepts.
RegExp(class) == [kind |-> "RegExp", class |-> class]
\* A rule name (a string primitive).
Name(n) == [kind |-> "string", name |-> n]
\* TokenValidatorOptionsConfig { value, option }.
Option(value, option) == [kind |-> "Object", value |-> value, option |-> option]
\* TokenValidator[].
Sequence(items) == [kind |-> "Array", items |-> items]

\* BaseGrammarMapType: rules maps a rule name to its descriptor.
GrammarMap(rules) == [kind |-> "map", rules |-> rules]
Descriptor(options) == [options |-> options]

(***************************************************************************)
(* PROCESS_REGEX (lines 46-70).                                            *)
(***************************************************************************)
\* String.prototype.slice(start): undefined and NaN start at 0.
SliceStart(s, currentIndex) ==
  IF currentIndex.kind = "number"
  THEN (IF currentIndex.n > Len(s) THEN Len(s)
        ELSE IF currentIndex.n < 0
             THEN (IF Len(s) + currentIndex.n < 0 THEN 0 ELSE Len(s) + currentIndex.n)
             ELSE currentIndex.n)
  ELSE 0

\* String.prototype.match of a one-class pattern: the leftmost character of
\* the string that is in the class, wherever it stands; <<>> when none is.
MatchRegExp(s, regexp) ==
  LET hits == {i \in 1..Len(s) : s[i] \in regexp.class}
  IN IF hits = {} THEN <<>>
     ELSE LET first == CHOOSE i \in hits : \A j \in hits : i <= j
          IN <<s[first]>>

PROCESS_REGEX(s, tokenType, tokenValidator, grammarMap, currentIndex) ==
  IF tokenValidator.kind = "RegExp"
  THEN LET from == SliceStart(s, currentIndex)
           stringFromIndex == SubSeq(s, from + 1, Len(s))
           match == MatchRegExp(stringFromIndex, tokenValidator)
       IN IF match # <<>>
          THEN AST(currentIndex, Plus(currentIndex, Len(match) - 1),
                   tokenType, Text(match))
          ELSE False
  ELSE False

(***************************************************************************)
(* processTokenValidator and the option processors (lines 71-263).         *)
(***************************************************************************)
RECURSIVE processTokenValidator(_, _, _, _, _)
RECURSIVE RepeatLoop(_, _, _, _, _, _)
RECURSIVE ArrayLoop(_, _, _, _, _, _, _)
RECURSIVE OptionsLoop(_, _, _, _, _, _)

\* The while (true) loop of ZERO_OR_MORE and ONE_OR_MORE (lines 83-95 and
\* 123-135).  The call is pure, so an attempt that succeeds and leaves
\* latestCurrentIndex where it was succeeds again for ever: the loop never
\* breaks.
RepeatLoop(s, tokenType, tokenValidator, grammarMap, latestCurrentIndex, results) ==
  LET resultAst == processTokenValidator(s, tokenType, tokenValidator,
                                         grammarMap, latestCurrentIndex)
      next == Plus(Prop(resultAst, "endIndex"), 1)
  IN IF Abnormal(resultAst)
     THEN [outcome |-> resultAst, latestCurrentIndex |-> latestCurrentIndex,
           results |-> results]
     ELSE IF Truthy(resultAst)
          THEN IF next = latestCurrentIndex
               THEN [outcome |-> Diverges, latestCurrentIndex |-> next,
                     results |-> Append(results, resultAst)]
               ELSE RepeatLoop(s, tokenType, tokenValidator, grammarMap, next,
                               Append(results, resultAst))
          ELSE [outcome |-> False, latestCurrentIndex |-> latestCurrentIndex,
                results |-> results]

ProcessZeroOrMore(s, tokenType, tokenValidator, grammarMap, currentIndex) ==
  LET loop == RepeatLoop(s, tokenType, tokenValidator, grammarMap,
                         currentIndex, <<>>)
  IN IF Abnormal(loop.outcome) THEN loop.outcome
     ELSE IF Len(loop.results) > 0
          THEN AST(currentIndex, Plus(loop.latestCurrentIndex, -1), tokenType,
                   List(loop.results))
          ELSE AST(currentIndex, currentIndex, tokenType, Text(<<>>))

ProcessOneOrMore(s, tokenType, tokenValidator, grammarMap, currentIndex) ==
  LET loop == RepeatLoop(s, tokenType, tokenValidator, grammarMap,
                         currentIndex, <<>>)
  IN IF Abnormal(loop.outcome) THEN loop.outcome
     ELSE IF Len(loop.results) > 0
          THEN AST(currentIndex, Plus(loop.latestCurrentIndex, -1), tokenType,
                   List(loop.results))
          ELSE False

\* The for (i < 2) loop of ZERO_OR_ONE, unrolled (lines 154-191).
ProcessZeroOrOne(s, tokenType, tokenValidator, grammarMap, currentIndex) ==
  LET first == processTokenValidator(s, tokenType, tokenValidator, grammarMap,
                                     currentIndex)
      latestCurrentIndex == Plus(Prop(first, "endIndex"), 1)
      second == processTokenValidator(s, tokenType, tokenValidator, grammarMap,
                                      latestCurrentIndex)
  IN IF Abnormal(first) THEN first
     ELSE IF ~Truthy(first)
          THEN AST(currentIndex, currentIndex, tokenType, Text(<<>>))
          ELSE IF Abnormal(second) THEN second
               ELSE IF Truthy(second) THEN False
                    ELSE first

TOKEN_VALIDATOR_OPTION_PROCESSORS(option, s, tokenType, tokenValidator, grammarMap, currentIndex) ==
  CASE option = ZERO_OR_MORE ->
         ProcessZeroOrMore(s, tokenType, tokenValidator, grammarMap, currentIndex)
    [] option = ONE_OR_MORE ->
         ProcessOneOrMore(s, tokenType, tokenValidator, grammarMap, currentIndex)
    [] option = ZERO_OR_ONE ->
         ProcessZeroOrOne(s, tokenType, tokenValidator, grammarMap, currentIndex)

\* The for (const t of tokenValidator) loop of the Array branch (lines
\* 204-217).  attempts records, for each member tried, the index it was
\* tried at and what it returned.
ArrayLoop(s, tokenType, items, grammarMap, currentIndex, i, attempts) ==
  IF i > Len(items)
  THEN [result |-> List([k \in 1..Len(attempts) |-> attempts[k].result]),
        attempts |-> attempts]
  ELSE LET r == processTokenValidator(s, tokenType, items[i], grammarMap,
                                      currentIndex)
           tried == Append(attempts, [at |-> currentIndex, result |-> r])
       IN IF Abnormal(r) THEN [result |-> r, attempts |-> tried]
          ELSE IF ~Truthy(r) THEN [result |-> False, attempts |-> tried]
               ELSE ArrayLoop(s, tokenType, items, grammarMap, currentIndex,
                              i + 1, tried)

\* OptionsLoop without its early return: every alternative is tried and a
\* later success replaces an earlier one.
RECURSIVE OptionsLoopLastWins(_, _, _, _, _, _)
OptionsLoopLastWins(s, tokenValidator, options, grammarMap, currentIndex, i) ==
  IF i > Len(options) THEN False
  ELSE LET r == processTokenValidator(s, tokenValidator, options[i],
                                      grammarMap, currentIndex)
           later == OptionsLoopLastWins(s, tokenValidator, options, grammarMap,
                                        currentIndex, i + 1)
       IN IF Abnormal(r) THEN r
          ELSE IF Abnormal(later) \/ Truthy(later) THEN later
               ELSE r

\* The for (const t of options) loop of the rule-name branch (lines 252-259).
OptionsLoop(s, tokenValidator, options, grammarMap, currentIndex, i) ==
  IF i > Len(options) THEN False
  ELSE LET r == processTokenValidator(s, tokenValidator, options[i],
                                      grammarMap, currentIndex)
       IN IF Abnormal(r) \/ Truthy(r) THEN r
          ELSE OptionsLoop(s, tokenValidator, options, grammarMap,
                           currentIndex, i + 1)

\* The wrapping both the RegExp and the Object branch apply to a truthy
\* result (lines 222-231 and 238-247).
Wrap(result, tokenType, currentIndex) ==
  IF Abnormal(result) THEN result
  ELSE IF Truthy(result)
       THEN AST(currentIndex, Plus(Prop(result, "newCurrentIndex"), -1),
                tokenType, Prop(result, "consumedString"))
       ELSE False

processTokenValidator(s, tokenType, tokenValidator, grammarMap, currentIndex) ==
  CASE tokenValidator.kind = "Array" ->
         ArrayLoop(s, tokenType, tokenValidator.items, grammarMap,
                   currentIndex, 1, <<>>).result
    [] tokenValidator.kind = "RegExp" ->
         \* PROCESS_REGEX(syntaxString, tokenType, currentIndex, tokenValidator)
         Wrap(PROCESS_REGEX(s, tokenType, currentIndex, tokenValidator, Undefined),
              tokenType, currentIndex)
    [] tokenValidator.kind = "Object" ->
         \* optionProcessor(syntaxString, currentIndex, t)
         Wrap(TOKEN_VALIDATOR_OPTION_PROCESSORS(tokenValidator.option, s,
                currentIndex, tokenValidator.value, Undefined, Undefined),
              tokenType, currentIndex)
    [] OTHER ->
         IF grammarMap.kind # "map" THEN TypeError
         ELSE IF tokenValidator.name \notin DOMAIN grammarMap.rules THEN TypeError
              ELSE OptionsLoop(s, tokenValidator,
                               grammarMap.rules[tokenValidator.name].options,
                               grammarMap, currentIndex, 1)

\* parseSyntaxString rejecting a match that leaves input unconsumed.
parseSyntaxStringWholeInput(s, g) ==
  LET root == processTokenValidator(s, g.entry, g.entry, g.map, Num(0))
  IN IF Truthy(root) /\ Prop(root, "endIndex") # Num(Len(s) - 1)
     THEN False
     ELSE root

\* parseSyntaxString (lines 265-269).
parseSyntaxString(s, g) ==
  processTokenValidator(s, g.entry, g.entry, g.map, Num(0))

(***************************************************************************)
(* SVGPolygonPointsGrammar (src/unnamed/part_000, lines 21-93).            *)
(***************************************************************************)
Digits == {"0", "1", "2", "3", "4", "5", "6", "7", "8", "9"}

SVGPolygonPointsGrammarMap ==
  GrammarMap(
    "list_of_points" :> Descriptor(<<
        Sequence(<<Option(Name("wsp"), ZERO_OR_MORE),
                    Option(Name("coordinate_pairs"), ZERO_OR_ONE),
                    Option(Name("wsp"), ZERO_OR_MORE)>>)>>)
    @@ "coordinate_pairs" :> Descriptor(<<
        Name("coordinate_pair"),
        Sequence(<<Name("coordinate_pair"), Name("comma_wsp"),
                    Name("coordinate_pairs")>>)>>)
    @@ "coordinate_pair" :> Descriptor(<<
        Sequence(<<Name("coordinate"), Name("comma_wsp"), Name("coordinate")>>),
        Sequence(<<Name("coordinate"), Name("negative_coordinate")>>)>>)
    @@ "coordinate" :> Descriptor(<<Name("number")>>)
    @@ "number" :> Descriptor(<<
        Sequence(<<Option(Name("sign"), ZERO_OR_ONE), Name("integer_constant")>>),
        Sequence(<<Option(Name("sign"), ZERO_OR_ONE),
                    Name("floating_point_constant")>>)>>)
    @@ "negative_coordinate" :> Descriptor(<<
        Sequence(<<RegExp({"-"}), Name("integer_constant")>>),
        Sequence(<<RegExp({"-"}), Name("floating_point_constant")>>)>>)
    @@ "comma_wsp" :> Descriptor(<<
        Sequence(<<Option(Name("wsp"), ONE_OR_MORE),
                    Option(Name("comma"), ZERO_OR_ONE),
                    Option(Name("wsp"), ZERO_OR_MORE)>>),
        Sequence(<<Name("comma"), Option(Name("wsp"), ZERO_OR_MORE)>>)>>)
    @@ "comma" :> Descriptor(<<RegExp({","})>>)
    @@ "integer_constant" :> Descriptor(<<Name("digit_sequence")>>)
    @@ "floating_point_constant" :> Descriptor(<<
        Sequence(<<Name("fractional_constant"),
                    Option(Name("exponent"), ZERO_OR_ONE)>>),
        Sequence(<<Name("digit_sequence"), Name("exponent")>>)>>)
    @@ "fractional_constant" :> Descriptor(<<
        Sequence(<<Option(Name("digit_sequence"), ZERO_OR_ONE), RegExp({"."}),
                    Name("digit_sequence")>>),
        Sequence(<<Name("digit_sequence"), RegExp({"."})>>)>>)
    @@ "exponent" :> Descriptor(<<
        Sequence(<<RegExp({"e", "E"}), Option(Name("sign"), ZERO_OR_ONE),
                    Name("digit_sequence")>>)>>)
    @@ "sign" :> Descriptor(<<RegExp({"+", "-"})>>)
    @@ "digit_sequence" :> Descriptor(<<
        Name("digit"),
        Sequence(<<Name("digit"), Name("digit_sequence")>>)>>)
    @@ "digit" :> Descriptor(<<RegExp(Digits)>>)
    @@ "wsp" :> Descriptor(<<RegExp({" "}), RegExp({"\t"}), RegExp({"\n"})>>))

SVGPolygonPointsGrammar ==
  [entry |-> Name("list_of_points"), map |-> SVGPolygonPointsGrammarMap]

(***************************************************************************)
(* The grammars and inputs the engine is applied to.                       *)
(***************************************************************************)
\* The longest input string drawn over the alphabet {a, b}.
MaxLen == 2

\* A grammar map with one rule for each shape of validator and option.
SampleGrammarMap ==
  GrammarMap(
    "a" :> Descriptor(<<RegExp({"a"})>>)
    @@ "b" :> Descriptor(<<RegExp({"b"})>>)
    @@ "ab" :> Descriptor(<<Sequence(<<RegExp({"a"}), RegExp({"b"})>>)>>)
    @@ "a_star" :> Descriptor(<<Option(RegExp({"a"}), ZERO_OR_MORE)>>)
    @@ "a_plus" :> Descriptor(<<Option(RegExp({"a"}), ONE_OR_MORE)>>)
    @@ "a_opt" :> Descriptor(<<Option(RegExp({"a"}), ZERO_OR_ONE)>>)
    @@ "star_opt" :> Descriptor(<<
        Option(Option(RegExp({"a"}), ZERO_OR_MORE), ZERO_OR_ONE)>>)
    @@ "star_star" :> Descriptor(<<
        Option(Option(RegExp({"a"}), ZERO_OR_MORE), ZERO_OR_MORE)>>)
    @@ "ref_star" :> Descriptor(<<Option(Name("a"), ZERO_OR_MORE)>>)
    @@ "ref_plus" :> Descriptor(<<Option(Name("a"), ONE_OR_MORE)>>)
    @@ "ref_opt" :> Descriptor(<<Option(Name("a"), ZERO_OR_ONE)>>)
    @@ "alias" :> Descriptor(<<Name("a_star")>>)
    @@ "either" :> Descriptor(<<Name("a"), Name("a_star")>>)
    @@ "both" :> Descriptor(<<Option(RegExp({"a"}), ZERO_OR_MORE),
                              Sequence(<<>>)>>)
    @@ "pair" :> Descriptor(<<
        Sequence(<<Option(RegExp({"a"}), ZERO_OR_MORE),
                    Option(RegExp({"b"}), ZERO_OR_MORE)>>)>>)
    @@ "broken_pair" :> Descriptor(<<
        Sequence(<<Option(RegExp({"a"}), ZERO_OR_MORE), RegExp({"b"}),
                    Option(RegExp({"b"}), ZERO_OR_MORE)>>)>>))

\* A grammar whose entry rule refers to a rule the map does not declare.
DanglingGrammar ==
  [entry |-> Name("start"),
   map |-> GrammarMap("start" :> Descriptor(<<Name("missing")>>))]

Grammars ==
  {SVGPolygonPointsGrammar, DanglingGrammar}
  \cup {[entry |-> Name(n), map |-> SampleGrammarMap] :
          n \in DOMAIN SampleGrammarMap.rules}

RECURSIVE StringsUpTo(_)
StringsUpTo(n) ==
  IF n = 0 THEN {<<>>}
  ELSE LET shorter == StringsUpTo(n - 1)
       IN shorter \cup {Append(w, c) : w \in shorter, c \in {"a", "b"}}

\* "10, 20", "10,20" and "10  20".
CoordinatePairInputs ==
  {<<"1", "0", ",", " ", "2", "0">>, <<"1", "0", ",", "2", "0">>,
   <<"1", "0", " ", " ", "2", "0">>}

Inputs == StringsUpTo(MaxLen) \cup CoordinatePairInputs

\* Every validator of a grammar: the rule names, the alternatives and what
\* they are built from.
RECURSIVE SubValidators(_)
SubValidators(v) ==
  {v} \cup (CASE v.kind = "Array" ->
                   UNION {SubValidators(v.items[i]) : i \in 1..Len(v.items)}
              [] v.kind = "Object" -> SubValidators(v.value)
              [] OTHER -> {})

Validators(g) ==
  {Name(n) : n \in DOMAIN g.map.rules}
  \cup UNION {UNION {SubValidators(g.map.rules[n].options[i]) :
                       i \in 1..Len(g.map.rules[n].options)} :
                n \in DOMAIN g.map.rules}

\* Every rule name a grammar refers to is declared in its map.
Declared(g) ==
  \A v \in Validators(g) \cup {g.entry} :
    v.kind = "string" => v.name \in DOMAIN g.map.rules

(***************************************************************************)
(* The state machine: an input and a grammar are drawn, and the functions  *)
(* are applied to them.  call is the call made and returned its outcome.    *)
(* The functions keep nothing between calls (the module has no mutable     *)
(* state), so a behaviour is one call on the drawn input and grammar.      *)
(***************************************************************************)
NoCall ==
  [op |-> "none", tokenType |-> Undefined, tokenValidator |-> Undefined,
   currentIndex |-> Undefined]

Init ==
  /\ syntaxString \in Inputs
  /\ grammar \in Grammars
  /\ call = NoCall
  /\ returned = Undefined

ParseSyntaxString ==
  /\ call = NoCall
  /\ call' = [op |-> "parseSyntaxString", tokenType |-> grammar.entry,
              tokenValidator |-> grammar.entry, currentIndex |-> Num(0)]
  /\ returned' = parseSyntaxString(syntaxString, grammar)
  /\ UNCHANGED <<syntaxString, grammar>>

ProcessTokenValidator ==
  \E v \in Validators(grammar), c \in 0..Len(syntaxString) :
    /\ call = NoCall
    /\ call' = [op |-> "processTokenValidator", tokenType |-> grammar.entry,
                tokenValidator |-> v, currentIndex |-> Num(c)]
    /\ returned' = processTokenValidator(syntaxString, grammar.entry, v,
                                         grammar.map, Num(c))
    /\ UNCHANGED <<syntaxString, grammar>>

ProcessRegex ==
  \E v \in {w \in Validators(grammar) : w.kind = "RegExp"},
     c \in 0..Len(syntaxString) :
    /\ call = NoCall
    /\ call' = [op |-> "PROCESS_REGEX", tokenType |-> grammar.entry,
                tokenValidator |-> v, currentIndex |-> Num(c)]
    /\ returned' = PROCESS_REGEX(syntaxString, grammar.entry, v, grammar.map,
                                 Num(c))
    /\ UNCHANGED <<syntaxString, grammar>>

Next == ParseSyntaxString \/ ProcessTokenValidator \/ ProcessRegex

Spec == Init /\ [][Next]_vars

(***************************************************************************)
(* Vocabulary of the properties.                                           *)
(***************************************************************************)
Matching == call.op \in {"processTokenValidator", "parseSyntaxString"}

\* The call matched a validator of the given kind.
MatchingKind(kind) == Matching /\ call.tokenValidator.kind = kind

\* Every AST node of a result: the result itself, the nodes of its value
\* and the members of an array.
RECURSIVE Nodes(_)
Nodes(r) ==
  CASE r.kind = "object" -> {r} \cup Nodes(r.value)
    [] r.kind = "array" -> UNION {Nodes(r.items[i]) : i \in 1..Len(r.items)}
    [] OTHER -> {}

\* The input text at the offsets startIndex..endIndex of a node.
Consumed(node) ==
  SubSeq(syntaxString, node.startIndex.n + 1, node.endIndex.n + 1)

\* What the engine returns for validator v at the call's index and grammar.
Attempt(tokenType, v) ==
  processTokenValidator(syntaxString, tokenType, v, grammar.map,
                        call.currentIndex)

\* The members of the call's Array validator as the engine tried them.
MemberAttempts ==
  ArrayLoop(syntaxString, call.tokenType, call.tokenValidator.items,
            grammar.map, call.currentIndex, 1, <<>>).attempts

\* The alternatives of the call's rule name, each matched on its own at the
\* call's index under that rule name.
Alternatives ==
  LET options == grammar.map.rules[call.tokenValidator.name].options
  IN [i \in 1..Len(options) |-> Attempt(call.tokenValidator, options[i])]

\* C1: a Sequence tries its first member at the cursor and every later
\* member at the previous member's endIndex + 1; a sequence of two
\* terminals matches two adjacent input characters that fit them.
C1_SequenceAdvancesCursor ==
  (call.op = "processTokenValidator" /\ call.tokenValidator.kind = "Array") =>
    LET items == call.tokenValidator.items
        c == call.currentIndex.n
    IN /\ \A i \in 1..Len(MemberAttempts) :
            MemberAttempts[i].at =
              IF i = 1 THEN call.currentIndex
              ELSE Plus(Prop(MemberAttempts[i - 1].result, "endIndex"), 1)
       /\ ( /\ Len(items) = 2
            /\ items[1].kind = "RegExp" /\ items[2].kind = "RegExp"
            /\ c + 2 <= Len(syntaxString)
            /\ syntaxString[c + 1] \in items[1].class
            /\ syntaxString[c + 2] \in items[2].class )
          => Truthy(returned)

\* C2: a rule reference returns the result of the first alternative, in
\* listed order and at the same cursor, that succeeds after every earlier
\* one failed, and returns Failure exactly when every alternative fails.
C2_FirstMatchWins ==
  (MatchingKind("string") /\ Declared(grammar)) =>
    /\ \A i \in DOMAIN Alternatives :
         ( /\ Truthy(Alternatives[i])
           /\ \A j \in 1..(i - 1) : Alternatives[j] = False )
         => returned = Alternatives[i]
    /\ returned = False <=> \A i \in DOMAIN Alternatives : Alternatives[i] = False

\* A rule with two alternatives that both succeed, with different trees,
\* has been matched and the first one's tree was returned.
C2_Witness ==
  /\ MatchingKind("string") /\ Declared(grammar)
  /\ Len(Alternatives) >= 2
  /\ Truthy(Alternatives[1]) /\ Truthy(Alternatives[2])
  /\ Alternatives[1] # Alternatives[2]
  /\ returned = Alternatives[1]

\* C3: a ZeroOrMore and a ZeroOrOne match never return Failure, and a
\* OneOrMore match returns Failure exactly when the inner validator fails
\* at the original cursor.
C3_QuantifierSuccess ==
  (call.op = "processTokenValidator" /\ call.tokenValidator.kind = "Object") =>
    LET option == call.tokenValidator.option
        inner == Attempt(call.tokenType, call.tokenValidator.value)
    IN /\ option \in {ZERO_OR_MORE, ZERO_OR_ONE} => returned # False
       /\ option = ONE_OR_MORE => (returned = False <=> inner = False)

C5_SpanInvariant ==
  (Matching /\ Truthy(returned)) =>
    /\ \A node \in Nodes(returned) :
         /\ node.startIndex.kind = "number"
         /\ node.endIndex.kind = "number"
         /\ node.endIndex.n >= node.startIndex.n - 1
    /\ ( /\ call.tokenValidator.kind = "Object"
         /\ call.tokenValidator.option \in {ZERO_OR_MORE, ZERO_OR_ONE}
         /\ Attempt(call.tokenType, call.tokenValidator.value) = False )
       => /\ returned.kind = "object"
          /\ returned.startIndex = call.currentIndex
          /\ returned.endIndex = Plus(call.currentIndex, -1)
          /\ returned.value \in {Text(<<>>), List(<<>>)}

\* C6: for a grammar whose referenced rule names are all declared,
\* parseSyntaxString returns a root AST node or the failure value; no
\* failed match raises an error.
C6_BinaryOutcome ==
  (call.op = "parseSyntaxString" /\ Declared(grammar)) =>
    returned.kind \in {"object", "false"}

\* C7: SVGPolygonPointsGrammar parses "10, 20", "10,20" and "10  20" to a
\* tree that covers the input and holds exactly one coordinate_pair, whose
\* two coordinates consume "10" and "20".
C7_CoordinatePair ==
  ( /\ call.op = "parseSyntaxString"
    /\ grammar = SVGPolygonPointsGrammar
    /\ syntaxString \in CoordinatePairInputs ) =>
    /\ returned.kind = "object"
    /\ returned.startIndex = Num(0)
    /\ returned.endIndex = Num(Len(syntaxString) - 1)
    /\ LET pairs == {n \in Nodes(returned) :
                       n.tokenType = Name("coordinate_pair")}
           coordinates == {n \in Nodes(returned) :
                             n.tokenType = Name("coordinate")}
       IN /\ Cardinality(pairs) = 1
          /\ \E x, y \in coordinates :
               /\ coordinates = {x, y}
               /\ x.startIndex = Num(0)
               /\ Consumed(x) = <<"1", "0">>
               /\ Consumed(y) = <<"2", "0">>
               /\ y.endIndex = Num(Len(syntaxString) - 1)

\* C8: a successful match of the rule reference N returns a node whose
\* tokenType is N, whatever kind of validator the chosen alternative is.
C8_RuleReferenceRetagged ==
  (MatchingKind("string") /\ Truthy(returned)) =>
    Prop(returned, "tokenType") = call.tokenValidator

\* C9: parseSyntaxString returns exactly what matching the entry rule
\* reference at cursor 0 returns; a success stays a success when its span
\* does not reach the last input offset.
C9_EntryPoint ==
  call.op = "parseSyntaxString" =>
    LET entryMatch == processTokenValidator(syntaxString, grammar.entry,
                                            grammar.entry, grammar.map, Num(0))
    IN /\ returned = entryMatch
       /\ ( /\ Truthy(entryMatch)
            /\ Prop(entryMatch, "endIndex") # Num(Len(syntaxString) - 1) )
          => Truthy(returned)

\* parseSyntaxString returned a success on a non-empty input that the
\* success does not cover.
C9_Witness ==
  /\ call.op = "parseSyntaxString"
  /\ Truthy(returned)
  /\ Len(syntaxString) > 0
  /\ Prop(returned, "endIndex") # Num(Len(syntaxString) - 1)

\* C10: a Sequence whose members all match returns one AST node whose
\* value lists the members' nodes in order and that spans from the first
\* member's startIndex to the last member's endIndex; a Sequence with a
\* failing member returns Failure.
C10_SequenceResultShape ==
  ( /\ call.op = "processTokenValidator"
    /\ call.tokenValidator.kind = "Array"
    /\ Len(call.tokenValidator.items) >= 1 ) =>
    LET n == Len(MemberAttempts)
        members == [i \in 1..n |-> MemberAttempts[i].result]
    IN /\ (\E i \in 1..n : members[i] = False) => returned = False
       /\ ( /\ n = Len(call.tokenValidator.items)
            /\ \A i \in 1..n : Truthy(members[i]) )
          => /\ returned.kind = "object"
             /\ returned.value = List(members)
             /\ returned.startIndex = Prop(members[1], "startIndex")
             /\ returned.endIndex = Prop(members[n], "endIndex")

====
